---- MODULE Spec2Model ----
(***************************************************************************)
(* Model of youtube_data_fetch.py: main() resolves a channel handle, pages *)
(* through the channel's videos (one detail lookup per listed video),      *)
(* writes the video workbook, then pages through comment threads video by  *)
(* video under a global comment budget and writes the comment workbook.    *)
(*                                                                         *)
(* The YouTube Data API is the environment: every request either raises,   *)
(* or answers with a page chosen nondeterministically within the bounds    *)
(* below.  Strings the program computes on are sequences of one-character  *)
(* strings.  Python's None / empty values are 0 (tokens, reply_to) and ""  *)
(* (channel_id).  The locals of a call are reset when the call returns,    *)
(* and with those of get_videos_by_channel_id the record of what the API   *)
(* served to that call.  Of the printed output the last message is kept.   *)
(*                                                                         *)
(* Spec is the whole run, for a few typed inputs; SpecInput is main up to  *)
(* the resolution of the handle, for all typed inputs within the bounds.   *)
(***************************************************************************)
EXTENDS Integers, Sequences, FiniteSets, TLC

\* ---------------------------------------------------------------- bounds
MaxHandleLen == 2      \* typed handles are drawn from strings up to this length
MaxCountLen == 2       \* typed comment counts: up to this many characters
MaxCount == 2          \* largest comment count typed (in absolute value)
MaxVideos == 2         \* videos the channel listing serves in total
MaxVideoPages == 2     \* listing pages served before the cursor comes back empty
MaxThreads == 2        \* comment threads of one video
MaxReplies == 2        \* replies carried by one thread
MaxCommentPages == 2   \* commentThreads pages served per video

\* ------------------------------------------------------- generic helpers
BoundedSeq(S, n) == UNION {[1..k -> S] : k \in 0..n}

Last(s) == s[Len(s)]

\* ------------------------------------------------------------ user input
\* The handle of the spec's orchestrator scenario, "@example/".
ExampleHandle == <<"@", "e", "x", "a", "m", "p", "l", "e", "/">>

HandleChars == {"/", "@", "e"}

Handles == BoundedSeq(HandleChars, MaxHandleLen) \cup {ExampleHandle}

DigitStr == <<"0", "1", "2", "3", "4", "5", "6", "7", "8", "9">>

IsDigit(c) == \E d \in 1..10 : DigitStr[d] = c

DigitVal(c) == (CHOOSE d \in 1..10 : DigitStr[d] = c) - 1

RECURSIVE DecimalValue(_)
DecimalValue(ds) ==
    IF ds = <<>> THEN 0
    ELSE 10 * DecimalValue(SubSeq(ds, 1, Len(ds) - 1)) + DigitVal(Last(ds))

\* int(text): an optional sign followed by one or more decimal digits;
\* anything else raises ValueError (ok = FALSE).
int(text) ==
    LET signed == text # <<>> /\ Head(text) \in {"-", "+"}
        body   == IF signed THEN Tail(text) ELSE text
        ok     == body # <<>> /\ \A i \in 1..Len(body) : IsDigit(body[i])
    IN  [ok |-> ok,
         value |-> IF ~ok THEN 0
                   ELSE IF signed /\ Head(text) = "-" THEN 0 - DecimalValue(body)
                   ELSE DecimalValue(body)]

CountChars == {"-", "x"} \cup {DigitStr[d + 1] : d \in 0..MaxCount}

CountTexts ==
    {t \in BoundedSeq(CountChars, MaxCountLen) :
        int(t).ok => (int(t).value <= MaxCount /\ int(t).value >= 0 - MaxCount)}

\* The inputs of the whole-run specification: one handle; a count that does
\* not parse, a negative one, and 0..MaxCount.
RunHandles == {<<"@", "e">>}

RunCounts == {<<"x">>, <<"-", "1">>} \cup {<<DigitStr[d + 1]>> : d \in 0..MaxCount}

\* ------------------------------------------------------------- variables
VARIABLES
    stdin,            \* what the user types: [username, count]
    pc,               \* position of the single thread of control
    username,         \* main: username
    max_comments,     \* main: max_comments
    channel_id,       \* main: channel_id ("" is None)
    videos,           \* get_videos_by_channel_id: videos, then main: videos
    next_page_token,  \* get_videos_by_channel_id: next_page_token (0 is None)
    items,            \* get_videos_by_channel_id: items of the page still to visit
    resp_token,       \* get_videos_by_channel_id: response.get('nextPageToken')
    all_comments,     \* main: all_comments
    vi,               \* main: position of the for loop in videos
    video_id,         \* get_comments_by_video_id: video_id
    c_max_comments,   \* get_comments_by_video_id: max_comments
    comments,         \* get_comments_by_video_id: comments
    comment_count,    \* get_comments_by_video_id: comment_count
    c_next_page_token,\* get_comments_by_video_id: next_page_token (0 is None)
    c_raised,         \* get_comments_by_video_id: the except branch was taken
    request,          \* API side: the latest request, [api, id, pageToken]
    requested,        \* API side: the resources requested so far
    forHandle,        \* API side: forHandle of the channels().list request
    listed,           \* API side: the pages of video ids search().list has served
    detail,           \* API side: the outcome of videos().list per video id
    searchFailed,     \* API side: a search().list request raised
    files,            \* workbooks saved, in order: [name, sheet, rows]
    printed           \* the message printed last ("" before the first)

vars == <<stdin, pc, username, max_comments, channel_id, videos,
          next_page_token, items, resp_token, all_comments, vi, video_id,
          c_max_comments, comments, comment_count, c_next_page_token, c_raised,
          request, requested, forHandle, listed, detail, searchFailed, files,
          printed>>

mainVars == <<username, max_comments, channel_id, all_comments, vi>>
videoVars == <<videos, next_page_token, items, resp_token>>
commentVars == <<video_id, c_max_comments, comments, comment_count,
                 c_next_page_token, c_raised>>
apiVideoVars == <<listed, detail, searchFailed>>
apiVars == <<request, requested, forHandle>>

NoRequest == [api |-> "", id |-> 0, pageToken |-> 0]

Request(api, id, token) == [api |-> api, id |-> id, pageToken |-> token]

InitAfterInput ==
    /\ pc = "input"
    /\ username = <<>>
    /\ max_comments = 0
    /\ channel_id = ""
    /\ videos = <<>>
    /\ next_page_token = 0
    /\ items = <<>>
    /\ resp_token = 0
    /\ all_comments = <<>>
    /\ vi = 1
    /\ video_id = 0
    /\ c_max_comments = 0
    /\ comments = <<>>
    /\ comment_count = 0
    /\ c_next_page_token = 0
    /\ c_raised = FALSE
    /\ request = NoRequest
    /\ requested = {}
    /\ forHandle = <<>>
    /\ listed = <<>>
    /\ detail = <<>>
    /\ searchFailed = FALSE
    /\ files = <<>>
    /\ printed = ""

Init ==
    /\ stdin \in [username : RunHandles, count : RunCounts]
    /\ InitAfterInput

InitInput ==
    /\ stdin \in [username : Handles, count : CountTexts]
    /\ InitAfterInput

\* ------------------------------------------------------------------ main
\* str.split('/'): the pieces of s between the separators, at least one.
RECURSIVE split(_)
split(s) ==
    IF \A i \in 1..Len(s) : s[i] # "/" THEN <<s>>
    ELSE LET k == CHOOSE i \in 1..Len(s) :
                      s[i] = "/" /\ \A j \in 1..(i - 1) : s[j] # "/"
         IN  <<SubSeq(s, 1, k - 1)>> \o split(SubSeq(s, k + 1, Len(s)))

FirstSegment(s) == Head(split(s))

\* username.split('/')[-1]
LastSegment(s) == Last(split(s))

\* main, up to the call of get_channel_id_by_username: read both inputs,
\* parse the count, cut the handle.
read_input ==
    /\ pc = "input"
    /\ IF int(stdin.count).ok
       THEN /\ max_comments' = int(stdin.count).value
            /\ username' = LastSegment(stdin.username)
            /\ pc' = "resolve"
            /\ UNCHANGED printed
       ELSE /\ printed' = "Invalid value for comment count!"
            /\ pc' = "done"
            /\ UNCHANGED <<username, max_comments>>
    /\ UNCHANGED <<stdin, channel_id, all_comments, vi, videoVars, commentVars,
                   apiVars, apiVideoVars, files>>

ResolveOutcomes == {"found", "no_items", "raised"}

\* What get_channel_id_by_username returns when channels().list answers
\* with o: items[0]['id'], or "" for None.
ChannelIdOf(o) == IF o = "found" THEN "UC123" ELSE ""

\* if not channel_id: return
NoChannelNever(id) == FALSE

NoChannel(id) == id = ""

\* channel_id = get_channel_id_by_username(username); if not channel_id: return
get_channel_id_by_username ==
    /\ pc = "resolve"
    /\ request' = Request("channels", 0, 0)
    /\ requested' = requested \cup {"channels"}
    /\ forHandle' = username
    /\ \E o \in ResolveOutcomes :
         /\ channel_id' = ChannelIdOf(o)
         /\ printed' =
              IF ~NoChannel(channel_id') THEN "Fetching videos for channel ID"
              ELSE IF o = "no_items" THEN "No channel found with title"
              ELSE IF o = "raised" THEN "Error occurred while fetching channel ID"
              ELSE printed
         /\ pc' = IF NoChannel(channel_id') THEN "done" ELSE "search"
    /\ UNCHANGED <<stdin, username, max_comments, all_comments, vi, videoVars,
                   commentVars, apiVideoVars, files>>

\* ------------------------------------------- get_videos_by_channel_id
maxResults == 50       \* search().list(maxResults=50)

\* The page a cursor asks for (no cursor: the first page).
PageOf(token) == IF token = 0 THEN 1 ELSE token

\* Cursors the API may hand out with page p when at most n pages exist.
NextTokens(p, n) == {0} \cup (IF p < n THEN {p + 1} ELSE {})

Min(a, b) == IF a < b THEN a ELSE b

\* Where main goes on when get_videos_by_channel_id has returned: it saves
\* the videos.
AfterVideosSkipSave == "for_video"

AfterVideos == "save_videos"

\* How many video ids the listing has served so far: the next are numbered on.
RECURSIVE SumLen(_)
SumLen(ss) == IF ss = <<>> THEN 0 ELSE Len(Head(ss)) + SumLen(Tail(ss))

NumListed == SumLen(listed)

\* while True: response = youtube.search().list(...).execute()
\* A failure is caught by the except of the loop, which breaks out of it.
search_list ==
    /\ pc = "search"
    /\ request' = Request("search", 0, next_page_token)
    /\ requested' = requested \cup {"search"}
    /\ \/ /\ searchFailed' = TRUE
          /\ printed' = "Error occurred while fetching videos"
          /\ pc' = "return_videos"
          /\ UNCHANGED <<items, resp_token, listed>>
       \/ \E k \in 0..Min(maxResults, MaxVideos - NumListed) :
          \E t \in NextTokens(PageOf(next_page_token), MaxVideoPages) :
            /\ items' = [i \in 1..k |-> NumListed + i]
            /\ listed' = Append(listed, items')
            /\ resp_token' = t
            /\ pc' = "items"
            /\ UNCHANGED <<searchFailed, printed>>
    /\ UNCHANGED <<stdin, mainVars, videos, next_page_token, commentVars,
                   forHandle, detail, files>>

DetailOutcomes == {"found", "not_found", "raised"}

\* What get_video_details(v) returns when videos().list answers with o:
\* the record, or <<>> for None (no item; or the call raised and the
\* function's own except returned None).
VideoDetailsKeepRaised(v, o) ==
    IF o = "not_found" THEN <<>> ELSE <<[video_id |-> v]>>

VideoDetailsKeepNotFound(v, o) ==
    IF o = "raised" THEN <<>> ELSE <<[video_id |-> v]>>

VideoDetails(v, o) ==
    IF o = "found" THEN <<[video_id |-> v]>> ELSE <<>>

\* for item in response['items']: one pass of the loop body, the call of
\* get_video_details included.
get_video_details ==
    /\ pc = "items"
    /\ items # <<>>
    /\ request' = Request("videos", Head(items), 0)
    /\ requested' = requested \cup {"videos"}
    /\ \E o \in DetailOutcomes :
         /\ detail' = [v \in DOMAIN detail \cup {Head(items)} |->
                          IF v = Head(items) THEN o ELSE detail[v]]
         /\ videos' = videos \o VideoDetails(Head(items), o)
         /\ printed' = IF o = "raised"
                       THEN "Error occurred while fetching video details"
                       ELSE printed
    /\ items' = Tail(items)
    /\ UNCHANGED <<stdin, pc, mainVars, next_page_token, resp_token, commentVars,
                   forHandle, listed, searchFailed, files>>

\* next_page_token = response.get('nextPageToken'); if not: break
next_page ==
    /\ pc = "items"
    /\ items = <<>>
    /\ next_page_token' = resp_token
    /\ pc' = IF resp_token = 0 THEN "return_videos" ELSE "search"
    /\ UNCHANGED <<stdin, mainVars, videos, items, resp_token, commentVars,
                   apiVars, apiVideoVars, files, printed>>

\* return videos -- back in main: videos = get_videos_by_channel_id(channel_id)
return_videos ==
    /\ pc = "return_videos"
    /\ pc' = AfterVideos
    /\ next_page_token' = 0
    /\ items' = <<>>
    /\ resp_token' = 0
    /\ listed' = <<>>
    /\ detail' = <<>>
    /\ searchFailed' = FALSE
    /\ UNCHANGED <<stdin, mainVars, videos, commentVars, apiVars, files, printed>>

\* save_videos_to_excel(videos, f'videos_data_{username}.xlsx'); all_comments = []
save_videos_to_excel ==
    /\ pc = "save_videos"
    /\ files' = Append(files, [name |-> <<"videos_data_", username, ".xlsx">>,
                               sheet |-> "Videos", rows |-> videos])
    /\ printed' = "Excel file saved successfully"
    /\ all_comments' = <<>>
    /\ pc' = "for_video"
    /\ UNCHANGED <<stdin, username, max_comments, channel_id, vi, videoVars,
                   commentVars, apiVars, apiVideoVars>>

\* -------------------------------------------- get_comments_by_video_id
c_maxResults == 100    \* commentThreads().list(maxResults=100)

\* The budget test of main's loop: if len(all_comments) >= max_comments: break
BudgetSpent(n, m) == n >= m

\* The max_comments argument main passes to get_comments_by_video_id.
RemainingWhole(n, m) == m

Remaining(n, m) == m - n

\* for video in videos: the budget test, then the call of
\* get_comments_by_video_id up to its while loop.
for_video ==
    /\ pc = "for_video"
    /\ IF vi > Len(videos) \/ BudgetSpent(Len(all_comments), max_comments)
       THEN /\ pc' = "export_comments"
            /\ UNCHANGED commentVars
       ELSE /\ video_id' = videos[vi].video_id
            /\ c_max_comments' = Remaining(Len(all_comments), max_comments)
            /\ comments' = <<>>
            /\ c_next_page_token' = 0
            /\ comment_count' = 0
            /\ c_raised' = FALSE
            /\ pc' = "while_comments"
    /\ UNCHANGED <<stdin, mainVars, videoVars, apiVars, apiVideoVars, files,
                   printed>>

\* The items of a commentThreads page: thread k carries counts[k] replies.
\* Comment ids are numbered from base + 1 in the order the page lists them.
RECURSIVE ThreadItems(_, _)
ThreadItems(counts, base) ==
    IF counts = <<>> THEN <<>>
    ELSE <<[id |-> base + 1,
            replies |-> [r \in 1..Head(counts) |-> base + 1 + r]]>>
         \o ThreadItems(Tail(counts), base + 1 + Head(counts))

\* The records one thread item appends: the top-level comment, then its
\* replies in the order listed.
ItemRecordsRepliesFirst(v, item) ==
    [r \in 1..Len(item.replies) |->
        [video_id |-> v, comment_id |-> item.replies[r], reply_to |-> item.id]]
    \o <<[video_id |-> v, comment_id |-> item.id, reply_to |-> 0]>>

ItemRecords(v, item) ==
    <<[video_id |-> v, comment_id |-> item.id, reply_to |-> 0]>>
    \o [r \in 1..Len(item.replies) |->
          [video_id |-> v, comment_id |-> item.replies[r], reply_to |-> item.id]]

\* for item in response['items']: ...
RECURSIVE ProcessItems(_, _)
ProcessItems(v, its) ==
    IF its = <<>> THEN <<>>
    ELSE ItemRecords(v, Head(its)) \o ProcessItems(v, Tail(its))

\* except Exception: print(...); break -- the function returns what it has.
ExceptCommentsPropagates == "done"

ExceptComments == "return_comments"

\* One pass of while comment_count < max_comments: a commentThreads page is
\* requested and processed.  An exception (the request raising, or an item
\* of the answer raising while it is processed) leaves the records appended
\* so far and breaks out of the loop.
commentThreads_list ==
    /\ pc = "while_comments"
    /\ comment_count < c_max_comments
    /\ request' = Request("commentThreads", video_id, c_next_page_token)
    /\ requested' = requested \cup {"commentThreads"}
    /\ \E counts \in BoundedSeq(0..MaxReplies,
                                Min(c_maxResults, MaxThreads - comment_count)) :
         LET its == ThreadItems(counts, Len(comments))
             recs == ProcessItems(video_id, its)
         IN  \/ \E t \in NextTokens(PageOf(c_next_page_token), MaxCommentPages) :
                  /\ comments' = comments \o recs
                  /\ comment_count' = comment_count + Len(its)
                  /\ c_next_page_token' = t
                  /\ pc' = IF t = 0 THEN "return_comments" ELSE "while_comments"
                  /\ UNCHANGED <<c_raised, printed>>
             \/ \E n \in 0..(IF recs = <<>> THEN 0 ELSE Len(recs) - 1) :
                  /\ comments' = comments \o SubSeq(recs, 1, n)
                  /\ c_raised' = TRUE
                  /\ printed' = "Error occurred while fetching comments"
                  /\ pc' = ExceptComments
                  /\ UNCHANGED <<comment_count, c_next_page_token>>
    /\ UNCHANGED <<stdin, mainVars, videoVars, video_id, c_max_comments,
                   forHandle, apiVideoVars, files>>

\* get_comments_by_video_id is about to return comments.
Returning ==
    \/ pc = "return_comments"
    \/ pc = "while_comments" /\ comment_count >= c_max_comments

\* return comments -- back in main: all_comments.extend(comments)
return_comments ==
    /\ Returning
    /\ all_comments' = all_comments \o comments
    /\ vi' = vi + 1
    /\ pc' = "for_video"
    /\ video_id' = 0
    /\ c_max_comments' = 0
    /\ comments' = <<>>
    /\ comment_count' = 0
    /\ c_next_page_token' = 0
    /\ c_raised' = FALSE
    /\ UNCHANGED <<stdin, username, max_comments, channel_id, videoVars,
                   apiVars, apiVideoVars, files, printed>>

\* export_comments_to_excel(all_comments, f'comments_data_of_{username}.xlsx')
export_comments_to_excel ==
    /\ pc = "export_comments"
    /\ files' = Append(files, [name |-> <<"comments_data_of_", username, ".xlsx">>,
                               sheet |-> "Comments", rows |-> all_comments])
    /\ printed' = "Excel file saved successfully"
    /\ pc' = "done"
    /\ UNCHANGED <<stdin, mainVars, videoVars, commentVars, apiVars,
                   apiVideoVars>>

\* ---------------------------------------------------------- specification
Next ==
    \/ read_input
    \/ get_channel_id_by_username
    \/ search_list
    \/ get_video_details
    \/ next_page
    \/ return_videos
    \/ save_videos_to_excel
    \/ for_video
    \/ commentThreads_list
    \/ return_comments
    \/ export_comments_to_excel

Spec == Init /\ [][Next]_vars

\* The program is one sequential thread: whenever a step is possible it is
\* eventually taken.
FairSpec == Spec /\ WF_vars(Next)

\* main up to the resolution of the handle.
NextInput ==
    \/ read_input
    \/ get_channel_id_by_username

SpecInput == InitInput /\ [][NextInput]_vars

\* ------------------------------------------------------------ properties
Range(f) == {f[x] : x \in DOMAIN f}

InVideoCall == pc \in {"search", "items", "return_videos"}

RECURSIVE Flatten(_)
Flatten(ss) == IF ss = <<>> THEN <<>> ELSE Head(ss) \o Flatten(Tail(ss))

Issued(api) == request' # request /\ request'.api = api

InCommentCall == pc \in {"while_comments", "return_comments"}

VideoCallRaised == searchFailed \/ "raised" \in Range(detail)

NoReplies(recs) == \A i \in 1..Len(recs) : recs[i].reply_to = 0

CommentFiles == {i \in 1..Len(files) : files[i].sheet = "Comments"}

\* C1: main visits videos in the order get_videos_by_channel_id returned
\* them (the loop position only ever moves to the next video, and each call
\* is for the video at that position); get_comments_by_video_id is entered,
\* and a commentThreads request issued, only while len(all_comments) is
\* strictly below max_comments, with the argument
\* max_comments - len(all_comments), which is at least 1.  So once
\* len(all_comments) >= max_comments no request is issued for a later video.
C1_BudgetedVisits ==
    [][/\ vi' # vi => vi' = vi + 1
       /\ (pc = "for_video" /\ pc' = "while_comments") =>
            /\ Len(all_comments) < max_comments
            /\ vi <= Len(videos)
            /\ video_id' = videos[vi].video_id
            /\ c_max_comments' = max_comments - Len(all_comments)
            /\ c_max_comments' >= 1
       /\ Issued("commentThreads") =>
            /\ Len(all_comments) < max_comments
            /\ vi <= Len(videos)
            /\ video_id = videos[vi].video_id
            /\ request'.id = video_id
            /\ c_max_comments = max_comments - Len(all_comments)
            /\ c_max_comments >= 1
       /\ InCommentCall => videos' = videos]_vars

\* The budget is met after the first of two videos: the second is not visited.
C1_Witness ==
    /\ pc = "export_comments"
    /\ vi = 2
    /\ Len(videos) = 2
    /\ "commentThreads" \in requested
    /\ Len(all_comments) >= max_comments

\* C2: when no thread carries replies, get_comments_by_video_id returns at
\* most max_comments records, and the comment workbook never holds more
\* rows than the requested total.
C2_NoRepliesWithinBudget ==
    /\ (Returning /\ NoReplies(comments)) => Len(comments) <= c_max_comments
    /\ \A i \in CommentFiles :
         (NoReplies(files[i].rows) /\ max_comments >= 0) =>
            Len(files[i].rows) <= max_comments

FoundRecords(ids) ==
    LET found(v) == v \in DOMAIN detail /\ detail[v] = "found"
        kept == SelectSeq(ids, found)
    IN  [i \in 1..Len(kept) |-> [video_id |-> kept[i]]]

\* C4: when no call has failed, get_videos_by_channel_id returns one record
\* for exactly the listed ids whose detail lookup found the video, in
\* listing order; every listed id was looked up, and the loop ended on a
\* page without cursor.
C4_CompleteListing ==
    (pc = "return_videos" /\ ~VideoCallRaised) =>
        /\ videos = FoundRecords(Flatten(listed))
        /\ DOMAIN detail = Range(Flatten(listed))
        /\ resp_token = 0

\* Two pages, two listed videos, one of them not found.
C4_Witness ==
    /\ pc = "return_videos"
    /\ ~VideoCallRaised
    /\ Len(listed) = 2
    /\ Len(listed[1]) = 1
    /\ Len(listed[2]) = 1
    /\ detail[1] = "not_found"
    /\ Len(videos) = 1

InvalidCount == ~int(stdin.count).ok \/ int(stdin.count).value < 0

\* C5: when the typed count is not a non-negative integer, no API request
\* is made and no workbook is written.
C5_InvalidCountAborts ==
    InvalidCount => (requested = {} /\ files = <<>>)

\* C6 as stated: "@example/" reaches channels().list as "example".
C6_ExampleBecomesName ==
    (stdin.username = ExampleHandle /\ "channels" \in requested) =>
        forHandle = <<"e", "x", "a", "m", "p", "l", "e">>

\* C6 amended: channels().list receives what follows the last "/" of the
\* typed handle (all of it when it has none), nothing else removed; for
\* "@example/" that is the empty string.
C6_AfterLastSlash ==
    "channels" \in requested =>
        /\ \A i \in 1..Len(forHandle) : forHandle[i] # "/"
        /\ \E k \in 0..Len(stdin.username) :
             /\ k > 0 => stdin.username[k] = "/"
             /\ forHandle = SubSeq(stdin.username, k + 1, Len(stdin.username))
        /\ stdin.username = ExampleHandle => forHandle = <<>>

C6_Witness ==
    /\ stdin.username = ExampleHandle
    /\ "channels" \in requested

ResolutionFailed == "channels" \in requested /\ channel_id = ""

\* C7: when channels().list finds no channel or raises, the failure is
\* printed, the run is over, no search, videos or commentThreads request is
\* made and no workbook is written.
C7_ResolutionFailureAborts ==
    ResolutionFailed =>
        /\ pc = "done"
        /\ requested = {"channels"}
        /\ files = <<>>
        /\ printed \in {"No channel found with title",
                        "Error occurred while fetching channel ID"}

C7_Witness ==
    /\ ResolutionFailed
    /\ printed = "Error occurred while fetching channel ID"

\* C8: once the handle has resolved the run always comes to its end with
\* exactly two workbooks written, the videos first and then the comments
\* collected, whatever request failed on the way; and a comment fetch that
\* failed returns to main's loop, which, with a video and budget left,
\* fetches the comments of the next video.
C8_RunCompletes ==
    /\ [](channel_id # "" =>
            <>(/\ pc = "done"
               /\ Len(files) = 2
               /\ files[1].sheet = "Videos" /\ files[1].rows = videos
               /\ files[2].sheet = "Comments" /\ files[2].rows = all_comments))
    /\ [][/\ (pc = "return_comments" /\ c_raised) =>
               (pc' = "for_video" /\ vi' = vi + 1
                  /\ all_comments' = all_comments \o comments)
          /\ (pc = "for_video" /\ vi <= Len(videos)
                /\ Len(all_comments) < max_comments) =>
               (pc' = "while_comments" /\ video_id' = videos[vi].video_id)
          /\ (pc = "while_comments" /\ comment_count < c_max_comments) =>
               Issued("commentThreads")
          /\ Len(files') >= Len(files)]_vars

\* The fetch for the first video failed after one record, and with one more
\* wanted the comments of the second video are being requested.
C8_Witness ==
    /\ request = Request("commentThreads", 2, 0)
    /\ vi = 2
    /\ Len(all_comments) = 1
    /\ Len(files) = 1
    /\ printed = "Error occurred while fetching comments"

\* C9: the video workbook is written after get_videos_by_channel_id has
\* returned and before get_comments_by_video_id is first called: whenever a
\* commentThreads request has been made or a comment fetch is under way, the
\* first workbook written is the videos'; and no workbook exists while the
\* video loop is running.
C9_VideosSavedFirst ==
    /\ ("commentThreads" \in requested \/ InCommentCall) =>
          /\ Len(files) >= 1
          /\ files[1].sheet = "Videos"
          /\ files[1].rows = videos
    /\ (InVideoCall \/ pc = "save_videos") =>
          (files = <<>> /\ "commentThreads" \notin requested)

C9_Witness ==
    /\ request.api = "commentThreads"
    /\ Len(files) = 1
    /\ Len(videos) = 2

\* Each reply comes right after its top-level comment or after an earlier
\* reply of the same thread (ids grow in the order the API lists them), and
\* its top-level comment, of the same video, comes before it.
WellThreaded(recs) ==
    \A i \in 1..Len(recs) :
        recs[i].reply_to # 0 =>
            /\ \E j \in 1..(i - 1) :
                 /\ recs[j].reply_to = 0
                 /\ recs[j].video_id = recs[i].video_id
                 /\ recs[j].comment_id = recs[i].reply_to
            /\ i > 1
            /\ recs[i - 1].video_id = recs[i].video_id
            /\ \/ /\ recs[i - 1].reply_to = 0
                  /\ recs[i - 1].comment_id = recs[i].reply_to
               \/ /\ recs[i - 1].reply_to = recs[i].reply_to
                  /\ recs[i - 1].comment_id < recs[i].comment_id

\* C10: in the list get_comments_by_video_id builds (also when it is
\* returned after an exception), in all_comments and in the comment
\* workbook, each reply is preceded by the top-level comment of the same
\* video it replies to, and a thread's replies follow their top-level
\* comment in the order the API listed them.
C10_RepliesFollowParent ==
    /\ WellThreaded(comments)
    /\ WellThreaded(all_comments)
    /\ \A i \in CommentFiles : WellThreaded(files[i].rows)

\* A list returned after an exception, holding a thread with two replies,
\* is about to join the records of an earlier video.
C10_Witness ==
    /\ pc = "return_comments"
    /\ c_raised
    /\ \E i \in 1..(Len(comments) - 1) :
         /\ comments[i].reply_to # 0
         /\ comments[i + 1].reply_to = comments[i].reply_to
    /\ all_comments # <<>>
====
